---------------------------- MODULE Spec2Model ----------------------------
(***************************************************************************)
(* Model of Archive/SpinBathEuTest.py: the SpinSystem class (Hamiltonian   *)
(* construction, reset/rebuild of the Zeeman term, diagonalisation and the *)
(* transition queries).                                                    *)
(*                                                                         *)
(* Numbers.  Every matrix entry is an exact complex number held as a pair  *)
(* <<re, im>> of integer numerators over the fixed denominator Q.  Spin    *)
(* operator entries are multiples of 1/2, Hamiltonian entries multiples of *)
(* 1/4, so all arithmetic of the model is exact.  The g-matrices, the      *)
(* A-matrices, the field components and the nuclear g-factors are          *)
(* integers and scale entries directly.                                    *)
(*                                                                         *)
(* Units.  The physical constants (mu_b, mu_n, h*10^9, 10^-7, 10^-10)      *)
(* enter the code only as scalar factors.  The model keeps each factor in  *)
(* the place where the code applies it and gives it a small integer value  *)
(* (a choice of units), so that the numerators stay integers.              *)
(*                                                                         *)
(* Eigenvectors.  An eigenvector is known as a column of the array eig     *)
(* returned; matrix elements between eigenvectors (transition strengths)   *)
(* are named by their operator and columns, their numbers are LAPACK's.    *)
(*                                                                         *)
(* Specifications.  Spec: one SpinSystem object and every method called on *)
(* it in any order.  SpecQueries: the same object driven by update_B and   *)
(* the queries of the spectrum only.  SpecFunctions: the computations that *)
(* need no object, generate_spin_matrices for any spin (exact square       *)
(* roots) and the contrast formula of branching_contrast (floating point). *)
(***************************************************************************)
EXTENDS Integers, Sequences, FiniteSets, TLC

(***************************************************************************)
(* Bounds of the model.                                                    *)
(***************************************************************************)
\* largest field magnitude B handed to an update or a query
MaxB == 1

(***************************************************************************)
(* Program constants, in the units of the model.                           *)
(***************************************************************************)
\* denominator of every stored number: halves for the spin operator entries,
\* quarters for their products, eighths for the mean of two energies
Q == 2 * 2 * 2
\* SpinSystem.mu_b, Bohr magneton
mu_b == 5
\* SpinSystem.mu_n, nuclear magneton
mu_n == 3
\* h * 10**9, Planck's constant per GHz
h_GHz == 1
\* 10**-7, mu0/4pi
mu0_4pi == 1
\* 10**-10, Angstrom in metres
Angstrom == 1
\* SpinSystem.beta_el = mu_b / (h * 10**9)
beta_el == mu_b \div h_GHz
\* SpinSystem.beta_n = mu_n / (h * 10**9)
beta_n == mu_n \div h_GHz

(***************************************************************************)
(* Exact complex arithmetic over the denominator Q.                        *)
(***************************************************************************)
CZero == <<0, 0>>
COne == <<Q, 0>>
CAdd(a, b) == <<a[1] + b[1], a[2] + b[2]>>
CSub(a, b) == <<a[1] - b[1], a[2] - b[2]>>
CNeg(a) == <<0 - a[1], 0 - a[2]>>
\* integer (or real input) scalar n times a stored number
CScale(n, a) == <<n * a[1], n * a[2]>>
\* a stored number divided by an integer; exact in every use of the model
CDivInt(a, n) == <<a[1] \div n, a[2] \div n>>
\* product of two stored numbers
CMul(a, b) == <<(a[1] * b[1] - a[2] * b[2]) \div Q, (a[1] * b[2] + a[2] * b[1]) \div Q>>
\* numpy's ordering of complex scalars: by real part, then by imaginary part
CLess(a, b) == a[1] < b[1] \/ (a[1] = b[1] /\ a[2] < b[2])

RECURSIVE SumSeq(_, _)
\* sum(...) of a sequence of stored numbers
SumSeq(s, k) == IF k = 0 THEN CZero ELSE CAdd(SumSeq(s, k - 1), s[k])

(***************************************************************************)
(* Dense matrices: a sequence of rows, each a sequence of stored numbers.  *)
(***************************************************************************)
Cols(M) == IF Len(M) = 0 THEN 0 ELSE Len(M[1])
\* np.identity(n)
Identity(n) == [i \in 1..n |-> [j \in 1..n |-> IF i = j THEN COne ELSE CZero]]
\* np.zeros((n, n))
ZeroMat(n) == [i \in 1..n |-> [j \in 1..n |-> CZero]]
\* a Python scalar 0 / 0.0 taking part in array arithmetic: it broadcasts
\* exactly like a 1 x 1 array
Scalar0 == <<<<CZero>>>>
MScale(n, M) == [i \in 1..Len(M) |-> [j \in 1..Cols(M) |-> CScale(n, M[i][j])]]
MDivInt(M, n) == [i \in 1..Len(M) |-> [j \in 1..Cols(M) |-> CDivInt(M[i][j], n)]]
MNeg(M) == [i \in 1..Len(M) |-> [j \in 1..Cols(M) |-> CNeg(M[i][j])]]
\* numpy broadcasting of two 2-D shapes: equal, or one of them 1 x 1
CanBroadcast(A, B) == Len(A) = Len(B) \/ Len(A) = 1 \/ Len(B) = 1
BIdx(M, i) == IF Len(M) = 1 THEN 1 ELSE i
BDim(A, B) == IF Len(A) >= Len(B) THEN Len(A) ELSE Len(B)
\* A + B with broadcasting (defined when CanBroadcast)
MAdd(A, B) ==
    [i \in 1..BDim(A, B) |-> [j \in 1..BDim(A, B) |->
        CAdd(A[BIdx(A, i)][BIdx(A, j)], B[BIdx(B, i)][BIdx(B, j)])]]
\* A - B with broadcasting
MSub(A, B) ==
    [i \in 1..BDim(A, B) |-> [j \in 1..BDim(A, B) |->
        CSub(A[BIdx(A, i)][BIdx(A, j)], B[BIdx(B, i)][BIdx(B, j)])]]
\* A += B is defined only when the broadcast shape is the shape of A
CanAddInPlace(A, B) == Len(B) = Len(A) \/ Len(B) = 1
\* A @ B for square matrices of one dimension
MatMul(A, B) ==
    [i \in 1..Len(A) |-> [j \in 1..Len(A) |->
        SumSeq([k \in 1..Len(A) |-> CMul(A[i][k], B[k][j])], Len(A))]]
\* np.kron(A, B)
Kron(A, B) ==
    [r \in 1..(Len(A) * Len(B)) |-> [c \in 1..(Len(A) * Len(B)) |->
        CMul(A[((r - 1) \div Len(B)) + 1][((c - 1) \div Len(B)) + 1],
             B[((r - 1) % Len(B)) + 1][((c - 1) % Len(B)) + 1])]]
\* M.reshape(n*n): row-major flattening
Flatten(M) == [k \in 1..(Len(M) * Len(M)) |-> M[((k - 1) \div Len(M)) + 1][((k - 1) % Len(M)) + 1]]
\* v.reshape((n, n))
Unflatten(v, n) == [i \in 1..n |-> [j \in 1..n |-> v[(i - 1) * n + j]]]
\* (row vector of 3 real scalars) @ (3 x n^2 array of flattened operators)
VecDotV3(x, V3) == [k \in 1..Len(V3[1]) |->
    CAdd(CAdd(CScale(x[1], V3[1][k]), CScale(x[2], V3[2][k])), CScale(x[3], V3[3][k]))]
\* (3 x 3 real matrix) @ (3 x n^2 array of flattened operators)
MatDotV3(G, V3) == [i \in 1..3 |-> VecDotV3(G[i], V3)]
\* (row vector of 3 real scalars) @ (3 x 3 real matrix)
VecDotMat(x, G) == [j \in 1..3 |-> x[1] * G[1][j] + x[2] * G[2][j] + x[3] * G[3][j]]

RECURSIVE ISqrtFrom(_, _)
ISqrtFrom(n, r) == IF (r + 1) * (r + 1) > n THEN r ELSE ISqrtFrom(n, r + 1)
\* np.sqrt on the perfect squares the model meets
ISqrt(n) == ISqrtFrom(n, 0)

(***************************************************************************)
(* generate_spin_matrices.  A spin is given by twice its value (twoS), so  *)
(* that half-integer spins are integers; desc2 is twice the list desc.     *)
(***************************************************************************)
\* the list ascending from -spin to spin
desc2_ascending(twoS, row) == 2 * (row - 1) - twoS
desc2(twoS, row) == twoS - 2 * (row - 1)
\* 1/2 * np.sqrt(spin*(spin+1) - desc[row]*desc[other]) as a stored numerator:
\* spin*(spin+1) - m*m' = (twoS*(twoS+2) - desc2*desc2') / 4
LadderElement(twoS, row, other) ==
    (Q * ISqrt(twoS * (twoS + 2) - desc2(twoS, row) * desc2(twoS, other))) \div 4
generate_spin_matrices(twoS) ==
    IF twoS = 0
    THEN <<ZeroMat(1), ZeroMat(1), ZeroMat(1)>>
    ELSE LET dim == twoS + 1
             sx == [row \in 1..dim |-> [col \in 1..dim |->
                      IF (col = row + 1 /\ row # dim) \/ (col = row - 1 /\ row # 1)
                      THEN <<LadderElement(twoS, row, col), 0>> ELSE CZero]]
             sy == [row \in 1..dim |-> [col \in 1..dim |->
                      IF col = row + 1 /\ row # dim
                      THEN <<0, 0 - LadderElement(twoS, row, col)>>
                      ELSE IF col = row - 1 /\ row # 1
                           THEN <<0, LadderElement(twoS, row, col)>> ELSE CZero]]
             sz == [row \in 1..dim |-> [col \in 1..dim |->
                      IF col = row THEN <<(Q * desc2(twoS, row)) \div 2, 0>> ELSE CZero]]
         IN <<sx, sy, sz>>
(***************************************************************************)
(* generate_spin_matrices for any spin.  np.sqrt of an integer that is no   *)
(* perfect square is irrational, so the entries are kept exact: a number is *)
(* a sum of terms c * sqrt(f), stored as the function that maps every       *)
(* square-free radicand f with c # 0 to its coefficient c, a complex        *)
(* numerator pair over the denominator QS.                                  *)
(***************************************************************************)
QS == Q * Q * 4
\* the largest r whose square divides n (n >= 1)
SquarePart(n) == CHOOSE r \in 1..n : n % (r * r) = 0 /\ \A t \in (r + 1)..n : n % (t * t) # 0
SurdZero == [f \in {} |-> CZero]
\* c * np.sqrt(n)
Surd(c, n) ==
    IF n = 0 \/ c = CZero THEN SurdZero
    ELSE [f \in {n \div (SquarePart(n) * SquarePart(n))} |-> CScale(SquarePart(n), c)]
\* 1/2 * np.sqrt(spin*(spin+1) - desc[row]*desc[other]) times the unit u (1,
\* -1j or 1j): spin*(spin+1) - m*m' = (twoS*(twoS+2) - desc2*desc2') / 4
ladder(twoS, row, other, u) ==
    Surd(CScale(QS \div 4, u), twoS * (twoS + 2) - desc2(twoS, row) * desc2(twoS, other))
\* the three branches of the loop over the rows (row from 1, dim = twoS + 1)
generate_spin_matrices_any(twoS) ==
    IF twoS = 0
    THEN <<<<<<SurdZero>>>>, <<<<SurdZero>>>>, <<<<SurdZero>>>>>>
    ELSE LET dim == twoS + 1
             up(row, col) == col = row + 1 /\ (row = 1 \/ row # dim)
             down(row, col) == col = row - 1 /\ row # 1
             sx == [row \in 1..dim |-> [col \in 1..dim |->
                      IF up(row, col) \/ down(row, col)
                      THEN ladder(twoS, row, col, <<1, 0>>) ELSE SurdZero]]
             sy == [row \in 1..dim |-> [col \in 1..dim |->
                      IF up(row, col) THEN ladder(twoS, row, col, <<0, -1>>)
                      ELSE IF down(row, col) THEN ladder(twoS, row, col, <<0, 1>>)
                      ELSE SurdZero]]
             sz == [row \in 1..dim |-> [col \in 1..dim |->
                      IF col = row THEN Surd(<<(QS * desc2(twoS, row)) \div 2, 0>>, 1)
                      ELSE SurdZero]]
         IN <<sx, sy, sz>>

\* X.reshape((3, mult**2)) of a stacked operator triple
V3(triple) == [i \in 1..3 |-> Flatten(triple[i])]

(***************************************************************************)
(* Neighbour.__init__: input tuple <<disp_vector, twoH, g_n_host, element>>*)
(***************************************************************************)
Neighbour(inp) ==
    LET dv == [i \in 1..3 |-> Angstrom * inp[1][i]]
        Hm == generate_spin_matrices(inp[2])
    IN [disp_vector |-> dv,
        R |-> ISqrt(dv[1] * dv[1] + dv[2] * dv[2] + dv[3] * dv[3]),
        twoH |-> inp[2],
        multH |-> inp[2] + 1,
        g_n_host |-> inp[3],
        element |-> inp[4],
        H |-> Hm,
        Hv3 |-> V3(Hm)]

(***************************************************************************)
(* SpinSystem.__init__, lines 79-113: the fields that depend on the        *)
(* arguments alone and never change.  a is the record of arguments; the    *)
(* record built here is c in the operators below.                          *)
(***************************************************************************)
SpinFields(a) ==
    LET Sm == generate_spin_matrices(a.twoS)
        Im == generate_spin_matrices(a.twoI)
    IN [twoS |-> a.twoS, twoI |-> a.twoI,
        g_gs |-> a.g_gs, g_es |-> a.g_es, g_n_rei |-> a.g_n_rei,
        A_gs |-> a.A_gs, A_es |-> a.A_es,
        multS |-> a.twoS + 1, multI |-> a.twoI + 1,
        S |-> Sm, Sv3 |-> V3(Sm), I |-> Im, Iv3 |-> V3(Im),
        neighbours |-> [k \in 1..Len(a.neighbours_list) |-> Neighbour(a.neighbours_list[k])]]

RECURSIVE ExpandHosts(_, _, _, _, _)
\* the loops "for (inner_)neigh in self.neighbours: X = np.kron(X, ...)": the
\* first k neighbours are appended in list order; neighbour `own` contributes
\* the operator op, every other one the identity of its multiplicity
\* (own = 0: identities only)
ExpandHosts(M, neighs, k, own, op) ==
    IF k = 0 THEN M
    ELSE Kron(ExpandHosts(M, neighs, k - 1, own, op),
              IF k = own THEN op ELSE Identity(neighs[k].multH))

RECURSIVE SumMats(_, _)
\* Python's sum(...) / repeated += starting from the scalar 0
SumMats(s, k) == IF k = 0 THEN Scalar0 ELSE MAdd(SumMats(s, k - 1), s[k])

(***************************************************************************)
(* initialize_HHF                                                          *)
(***************************************************************************)
\* (A @ self.Sv3).reshape((3, multS, multS))
ADotS(c, A) == [i \in 1..3 |-> Unflatten(MatDotV3(A, c.Sv3)[i], c.multS)]
\* sum(self.S[i] @ self.HHF_gs[i] for i in range(3))
SAS(c, A) == SumMats([i \in 1..3 |-> MatMul(c.S[i], ADotS(c, A)[i])], 3)
initialize_HHF_gs(c) ==
    ExpandHosts(SAS(c, c.A_gs), c.neighbours, Len(c.neighbours), 0, Scalar0)
\* sum(np.kron(self.I[i], self.HHF_es[i]) for i in range(3))
IAS(c, A) == SumMats([i \in 1..3 |-> Kron(c.I[i], ADotS(c, A)[i])], 3)
initialize_HHF_es(c) ==
    ExpandHosts(IAS(c, c.A_es), c.neighbours, Len(c.neighbours), 0, Scalar0)

(***************************************************************************)
(* initialize_SHF, for the manifold whose g-matrix is g                    *)
(***************************************************************************)
\* mu_REI = -(self.mu_b * g @ self.Sv3).reshape((3, multS, multS))
mu_REI(c, g) ==
    LET mg == [i \in 1..3 |-> [j \in 1..3 |-> mu_b * g[i][j]]]
    IN [i \in 1..3 |-> MNeg(Unflatten(MatDotV3(mg, c.Sv3)[i], c.multS))]
\* mu_host = self.mu_n * neigh.g_n_host * neigh.H
mu_host(neigh) == [i \in 1..3 |-> MScale(mu_n * neigh.g_n_host, neigh.H[i])]
\* the three terms kron(mu_REI[i], identity(multI)) x hosts, each / R**3, summed
first_term_of(c, g, idx) ==
    LET neigh == c.neighbours[idx]
        term(i) == ExpandHosts(Kron(mu_REI(c, g)[i], Identity(c.multI)),
                               c.neighbours, Len(c.neighbours), idx, mu_host(neigh)[i])
    IN SumMats([i \in 1..3 |-> MDivInt(term(i), neigh.R * neigh.R * neigh.R)], 3)
\* (3 / R**5) * kron(kron(disp . mu_REI, identity(multI)), ..., disp . mu_host, ...)
\* neigh.disp_vector.dot(mu_REI_v3).reshape((multS, multS))
dot_REI(c, g, neigh) == Unflatten(VecDotV3(neigh.disp_vector, V3(mu_REI(c, g))), c.multS)
\* neigh.disp_vector.dot(mu_host_v3).reshape((multH, multH))
dot_host(neigh) == Unflatten(VecDotV3(neigh.disp_vector, V3(mu_host(neigh))), neigh.multH)
second_term_of(c, g, idx) ==
    LET neigh == c.neighbours[idx]
        full == ExpandHosts(Kron(dot_REI(c, g, neigh), Identity(c.multI)),
                            c.neighbours, Len(c.neighbours), idx, dot_host(neigh))
    IN MDivInt(MScale(3, full), neigh.R * neigh.R * neigh.R * neigh.R * neigh.R)
initialize_SHF(c, g) ==
    LET n == Len(c.neighbours)
        first_term == SumMats([idx \in 1..n |-> first_term_of(c, g, idx)], n)
        second_term == SumMats([idx \in 1..n |-> second_term_of(c, g, idx)], n)
    IN MDivInt(MScale(mu0_4pi, MSub(first_term, second_term)), h_GHz)

(***************************************************************************)
(* update_zeeman_ham: the Zeeman terms of the field F = <<B, theta, phi>>, *)
(* the angles in quarter turns.                                            *)
(***************************************************************************)
\* np.sin / np.cos at a multiple of pi/2
Sin(k) == CASE k % 4 = 0 -> 0 [] k % 4 = 1 -> 1 [] k % 4 = 2 -> 0 [] OTHER -> 0 - 1
Cos(k) == Sin(k + 1)
\* a rebuild that forgets the magnitude: the unit vector of the direction
B_vec_unit(F) == <<Sin(F[2]) * Cos(F[3]), Sin(F[2]) * Sin(F[3]), Cos(F[2])>>
B_vec(F) == <<F[1] * Sin(F[2]) * Cos(F[3]), F[1] * Sin(F[2]) * Sin(F[3]), F[1] * Cos(F[2])>>
\* the same without the g tensor: self.beta_el * B_vec @ self.Sv3
HZ_el_S_without_g(c, g, F) ==
    Unflatten(VecDotV3([i \in 1..3 |-> beta_el * B_vec(F)[i]], c.Sv3), c.multS)
\* (self.beta_el * B_vec @ g @ self.Sv3).reshape((multS, multS))
HZ_el_S(c, g, F) ==
    Unflatten(VecDotV3(VecDotMat([i \in 1..3 |-> beta_el * B_vec(F)[i]], g), c.Sv3), c.multS)
\* expanded into the ion-nucleus space, then into the neighbours' spaces
HZ_el(c, g, F) ==
    ExpandHosts(Kron(HZ_el_S(c, g, F), Identity(c.multI)),
                c.neighbours, Len(c.neighbours), 0, Scalar0)
\* (self.beta_n * self.g_n_rei * B_vec @ self.Iv3).reshape((multI, multI))
HZ_n_rei_I(c, F) ==
    Unflatten(VecDotV3([i \in 1..3 |-> beta_n * c.g_n_rei * B_vec(F)[i]], c.Iv3), c.multI)
HZ_n_rei(c, F) ==
    ExpandHosts(Kron(Identity(c.multS), HZ_n_rei_I(c, F)),
                c.neighbours, Len(c.neighbours), 0, Scalar0)
\* (self.beta_n * neigh.g_n_host * B_vec @ neigh.Hv3).reshape((multH, multH))
HZ_n_host_term(neigh, F) ==
    Unflatten(VecDotV3([i \in 1..3 |-> beta_n * neigh.g_n_host * B_vec(F)[i]], neigh.Hv3),
              neigh.multH)
HZ_n_host_accum(c, F, idx) ==
    ExpandHosts(Kron(Identity(c.multS), Identity(c.multI)),
                c.neighbours, Len(c.neighbours), idx, HZ_n_host_term(c.neighbours[idx], F))
\* HZ_n_host = 0, then "+=" of every neighbour's term
HZ_n_host(c, F) ==
    SumMats([idx \in 1..Len(c.neighbours) |-> HZ_n_host_accum(c, F, idx)], Len(c.neighbours))

(***************************************************************************)
(* np.linalg.eig, sorted and np.argsort.                                   *)
(*                                                                         *)
(* eig is the numerical library's.  For a diagonal matrix its result is    *)
(* exact and the model computes it: the eigenvalues are the diagonal       *)
(* entries, in diagonal order, and the eigenvectors the unit vectors.  For *)
(* any other matrix the model does not compute the spectrum: the library   *)
(* is a fixed but arbitrary function, chosen once (variable lapack), that  *)
(* returns as many eigenvalues as the matrix has rows, in no particular    *)
(* order.  An eigenvector is named by its column in the matrix eig         *)
(* returned.                                                               *)
(***************************************************************************)
IsDiagonal(M) == \A i \in 1..Len(M) : \A j \in 1..Len(M) : i # j => M[i][j] = CZero
eig(M, lib) ==
    IF IsDiagonal(M)
    THEN [k \in 1..Len(M) |-> M[k][k]]
    ELSE [k \in 1..Len(M) |-> IF k % 2 = 1 THEN <<lib[1], 0>> ELSE <<lib[2], 0>>]

RECURSIVE Insert(_, _, _)
\* insert x into the sorted sequence s after every element not greater than it
Insert(s, x, k) ==
    IF k > Len(s) THEN Append(s, x)
    ELSE IF CLess(x, s[k]) THEN SubSeq(s, 1, k - 1) \o <<x>> \o SubSeq(s, k, Len(s))
         ELSE Insert(s, x, k + 1)
RECURSIVE SortedPrefix(_, _)
SortedPrefix(w, k) == IF k = 0 THEN <<>> ELSE Insert(SortedPrefix(w, k - 1), w[k], 1)
\* Python's sorted(eigval): ascending, stable
sorted(w) == SortedPrefix(w, Len(w))
\* position of element j in the stable ascending order
RankOf(w, j) ==
    Cardinality({i \in 1..Len(w) : CLess(w[i], w[j]) \/ (w[i] = w[j] /\ i < j)}) + 1
\* eigenvector columns left in the order eig returned them
argsort_unsorted(w) == [k \in 1..Len(w) |-> k]
\* np.argsort(eigval): the indices that sort w (1-based in the model)
argsort(w) == [k \in 1..Len(w) |-> CHOOSE j \in 1..Len(w) : RankOf(w, j) = k]

(***************************************************************************)
(* The SpinSystem object.  o is the record of the object's attributes; a   *)
(* method returns the object after the call, the exception it raised (or   *)
(* None) and the value it returned.                                        *)
(***************************************************************************)
\* Python's None where a sequence may stand (a field, a returned value), and
\* where a string may stand (an exception, a manifold name)
None == <<>>
Nil == "None"
Ret(o, v) == [self |-> o, raised |-> Nil, value |-> v]
Raise(o, e) == [self |-> o, raised |-> e, value |-> None]

\* reset_ham: the sums HHF + H_SHF, copied.  numpy raises ValueError when the
\* two cached terms of a manifold do not broadcast.
reset_ham(o) ==
    IF ~CanBroadcast(o.HHF_gs, o.H_SHF_gs) THEN Raise(o, "ValueError")
    ELSE IF ~CanBroadcast(o.HHF_es, o.H_SHF_es)
         THEN Raise([o EXCEPT !.H_gs = MAdd(o.HHF_gs, o.H_SHF_gs)], "ValueError")
         ELSE Ret([o EXCEPT !.H_gs = MAdd(o.HHF_gs, o.H_SHF_gs),
                            !.H_es = MAdd(o.HHF_es, o.H_SHF_es)], None)

\* statements in sequence: what follows a call runs (on the call's outcome r)
\* only if the call did not raise; an exception passes through to the caller
Then(r, rest(_)) == IF r.raised # Nil THEN r ELSE rest(r)

\* the in-place additions on working Hamiltonians that are the cached hyperfine
\* arrays themselves, not copies: the addition is written to both
add_zeeman_aliased(o, Z_gs, Z_es) ==
    IF ~CanAddInPlace(o.H_gs, Z_gs) \/ ~CanAddInPlace(o.H_es, Z_es)
    THEN Raise(o, "ValueError")
    ELSE Ret([o EXCEPT !.H_gs = MAdd(@, Z_gs), !.H_es = MAdd(@, Z_es),
                       !.HHF_gs = MAdd(o.H_gs, Z_gs), !.HHF_es = MAdd(o.H_es, Z_es)], None)
\* "self.H_gs += (...)", "self.H_es += (...)": an in-place addition raises
\* ValueError when the sum does not have the shape of the working Hamiltonian
add_zeeman(o, Z_gs, Z_es) ==
    IF ~CanAddInPlace(o.H_gs, Z_gs) THEN Raise(o, "ValueError")
    ELSE IF ~CanAddInPlace(o.H_es, Z_es)
         THEN Raise([o EXCEPT !.H_gs = MAdd(@, Z_gs)], "ValueError")
         ELSE Ret([o EXCEPT !.H_gs = MAdd(@, Z_gs), !.H_es = MAdd(@, Z_es)], None)
\* HZ_el - HZ_n_rei - HZ_n_host of one manifold
zeeman_sum(el, n_rei, n_host) == MSub(MSub(el, n_rei), n_host)
\* the Zeeman terms of both manifolds; the nuclear terms are computed once
zeeman_sums(c, F, n_rei, n_host) ==
    <<zeeman_sum(HZ_el(c, c.g_gs, F), n_rei, n_host),
      zeeman_sum(HZ_el(c, c.g_es, F), n_rei, n_host)>>
\* update_zeeman_ham: the Zeeman terms, then reset_ham, then the two in-place
\* additions
update_zeeman_ham(o, F) ==
    Then(Ret(o, zeeman_sums(o.cfg, F, HZ_n_rei(o.cfg, F), HZ_n_host(o.cfg, F))), LAMBDA z :
        Then(reset_ham(z.self), LAMBDA r :
            add_zeeman(r.self, z.value[1], z.value[2])))

\* the spectrum of one Hamiltonian: <<eig's eigenvalues, sorted(eigval),
\* np.argsort(eigval)>>
spectrum(w) == <<w, sorted(w), argsort(w)>>
\* calc_energies: eig of each Hamiltonian, the eigenvalues sorted, the
\* eigenvector columns taken in argsort order.  eig raises LinAlgError on a
\* matrix that is not a square 2-d array; the Hamiltonians always are.
store_spectra(o, gs, es) ==
    Ret([o EXCEPT !.eigval_gs = gs[1], !.E_gs = gs[2], !.eigvec_gs = gs[3],
                  !.eigval_es = es[1], !.E_es = es[2], !.eigvec_es = es[3]], None)
calc_energies(o) ==
    store_spectra(o, spectrum(eig(o.H_gs, o.lapack)), spectrum(eig(o.H_es, o.lapack)))

update_B(o, F) == Then(update_zeeman_ham(o, F), LAMBDA r : calc_energies(r.self))

\* "B is not None and B_theta is not None and B_phi is not None": F holds the
\* field arguments a query was called with, in the order B, B_theta, B_phi
\* (None = <<>>: called without field), so all three are given iff there are
\* three
Given(F) == Len(F) = 3
\* "if B is not None and B_theta is not None and B_phi is not None:
\*      self.update_B(B, B_theta, B_phi)"
update_if_given(o, F) == IF Given(F) THEN update_B(o, F) ELSE Ret(o, None)

energies(o, state, F) ==
    Then(update_if_given(o, F), LAMBDA u :
        IF state = "gs" THEN Ret(u.self, u.self.E_gs)
        ELSE IF state = "es" THEN Ret(u.self, u.self.E_es)
        ELSE Raise(u.self, "Exception"))

\* the inner loop "for j in range(i+1, len(E))" of spin_transitions, indices from 1
spin_inner(E, i) ==
    [k \in 1..(IF Len(E) > i THEN Len(E) - i ELSE 0) |-> <<CSub(E[i + k], E[i]), <<1, 1, 1>>>>]
RECURSIVE spin_outer(_, _, _)
\* the outer loop "for i in range(n)", from index i on
spin_outer(E, n, i) == IF i > n THEN <<>> ELSE spin_inner(E, i) \o spin_outer(E, n, i + 1)
\* both outer loops run over range(len(self.E_es))
spin_transitions(o, F) ==
    Then(update_if_given(o, F), LAMBDA u :
        Ret(u.self, <<spin_outer(u.self.E_gs, Len(u.self.E_es), 1),
                      spin_outer(u.self.E_es, Len(u.self.E_es), 1)>>))

\* bigSx, bigSy, bigSz of transition_strength: 2 S_e expanded into the
\* ion-nucleus space, then into the neighbours' spaces
transition_operators(c) ==
    [e \in 1..3 |->
        ExpandHosts(MScale(2, Kron(c.S[e], Identity(c.multI))),
                    c.neighbours, Len(c.neighbours), 0, Scalar0)]
\* column number idx, from 0, of the eigenvector array of a manifold: known as
\* the column of eig's output that argsort put there, and by its length
eigenvector(eigvec, H, idx) == [column |-> eigvec[idx + 1], len |-> Len(H)]
\* whether final.conjugate() @ bigS @ initial is defined for the three operators
CanMatMul(big, initial, final) ==
    \A e \in 1..3 : final.len = Len(big[e]) /\ Cols(big[e]) = initial.len
\* transition_strength: (fx, fy, fz), each the squared modulus of a matrix
\* element between two eigenvectors; the element is named by its operator and
\* its two eigenvector columns, its number is LAPACK's to give
transition_strength(big, initial, final) ==
    [e \in 1..3 |-> [operator |-> e, initial |-> initial.column, final |-> final.column]]
\* the inner loop of optical_transitions
optical_inner(o, big, i, compute_strengths) ==
    [j \in 1..Len(o.E_es) |->
        <<CSub(o.E_es[j], o.E_gs[i]),
          IF compute_strengths
          THEN transition_strength(big, eigenvector(o.eigvec_gs, o.H_gs, i - 1),
                                   eigenvector(o.eigvec_es, o.H_es, j - 1))
          ELSE None,
          <<i - 1, j - 1>>>>]
RECURSIVE optical_outer(_, _, _, _)
optical_outer(o, big, i, compute_strengths) ==
    IF i > Len(o.E_gs) THEN <<>>
    ELSE optical_inner(o, big, i, compute_strengths) \o
         optical_outer(o, big, i + 1, compute_strengths)
\* the first transition_strength whose product is undefined raises ValueError;
\* all eigenvectors of a manifold have one length, so that is the first call
optical_transitions(o, F, compute_strengths) ==
    Then(update_if_given(o, F), LAMBDA u :
        IF /\ compute_strengths
           /\ ~CanMatMul(transition_operators(u.self.cfg),
                         eigenvector(u.self.eigvec_gs, u.self.H_gs, 0),
                         eigenvector(u.self.eigvec_es, u.self.H_es, 0))
        THEN Raise(u.self, "ValueError")
        ELSE Ret(u.self, optical_outer(u.self, transition_operators(u.self.cfg), 1,
                                       compute_strengths)))

\* the attributes an object has: those it stores and those fixed at construction
Attributes(o) == DOMAIN o \cup DOMAIN o.cfg
\* one squared matrix element abs(bra.conjugate() @ bigS_e @ ket.T)**2, named
\* by its operator and its two eigenvector columns
matrix_element(e, bra, ket) == [operator |-> e, bra |-> bra.column, ket |-> ket.column]
\* branching_contrast: after the optional update it reads self.multH to build
\* bigSx; a SpinSystem has no such attribute (multH belongs to a Neighbour),
\* so the read raises AttributeError.  What follows the read: the three
\* eigenvectors of stated_levels (0, 1, 0 when None) and the two elements
\* whose ratio R and contrast 4R/(1+R)**2 are returned with them
branching_contrast(o, F, stated_levels) ==
    Then(update_if_given(o, F), LAMBDA u :
        IF "multH" \notin Attributes(u.self) THEN Raise(u.self, "AttributeError")
        ELSE LET levels == IF stated_levels = None THEN <<0, 1, 0>> ELSE stated_levels
                 gs_lower == eigenvector(u.self.eigvec_gs, u.self.H_gs, levels[1])
                 gs_upper == eigenvector(u.self.eigvec_gs, u.self.H_gs, levels[2])
                 es_lower == eigenvector(u.self.eigvec_es, u.self.H_es, levels[3])
             IN Ret(u.self, [r_23_S_x |-> matrix_element(1, gs_upper, es_lower),
                             r_13_S_x |-> matrix_element(1, gs_lower, es_lower),
                             gs_lower |-> gs_lower, gs_upper |-> gs_upper,
                             es_lower |-> es_lower]))

(***************************************************************************)
(* The arithmetic of RS_x and rho_S_x in branching_contrast is that of      *)
(* floating-point numbers: every operation returns the representable number *)
(* nearest to its exact result, a tie going to the even mantissa.  A float  *)
(* is <<m, e>>, the number m * 2^e with MantissaBits significant bits       *)
(* (2^(MantissaBits-1) <= m < 2^MantissaBits), or <<0, 0>>.  The exponent   *)
(* is not bounded: overflow and underflow do not occur on the inputs here.  *)
(***************************************************************************)
MantissaBits == 5
RECURSIVE Pow2(_)
Pow2(n) == IF n = 0 THEN 1 ELSE 2 * Pow2(n - 1)
RECURSIVE RoundRatio(_, _, _)
\* the float nearest to (n / d) * 2^e, for n >= 0 and d > 0
RoundRatio(n, d, e) ==
    IF n = 0 THEN <<0, 0>>
    ELSE IF n >= d * Pow2(MantissaBits) THEN RoundRatio(n, 2 * d, e + 1)
    ELSE IF n < d * Pow2(MantissaBits - 1) THEN RoundRatio(2 * n, d, e - 1)
    ELSE LET q == n \div d
             m == IF 2 * (n % d) > d \/ (2 * (n % d) = d /\ q % 2 = 1) THEN q + 1 ELSE q
         IN IF m = Pow2(MantissaBits) THEN <<Pow2(MantissaBits - 1), e + 1>> ELSE <<m, e>>
FromInt(k) == RoundRatio(k, 1, 0)
FMul(a, b) == RoundRatio(a[1] * b[1], 1, a[2] + b[2])
FDiv(a, b) == RoundRatio(a[1], b[1], a[2] - b[2])
FAdd(a, b) ==
    LET e == IF a[2] < b[2] THEN a[2] ELSE b[2]
    IN RoundRatio(a[1] * Pow2(a[2] - e) + b[1] * Pow2(b[2] - e), 1, e)
\* 4 * RS_x / (1 + RS_x) without the square
rho_S_x_unsquared(RS_x) == FDiv(FMul(FromInt(4), RS_x), FAdd(FromInt(1), RS_x))
\* rho_S_x = 4 * RS_x / (1 + RS_x)**2
rho_S_x(RS_x) ==
    FDiv(FMul(FromInt(4), RS_x),
         FMul(FAdd(FromInt(1), RS_x), FAdd(FromInt(1), RS_x)))

\* the parameters of spin_transitions besides self
spin_transitions_parameters == {"B", "B_theta", "B_phi"}
\* a call of spin_transitions with keyword arguments: a keyword that is not a
\* parameter raises TypeError before the body runs
call_spin_transitions(o, F, keywords) ==
    IF keywords \subseteq spin_transitions_parameters
    THEN spin_transitions(o, F)
    ELSE Raise(o, "TypeError")
\* the dispatch on transition_type in the loop of plot_transitions_strengths
transitions_of(o, F, transition_type) ==
    IF transition_type = "optical" THEN optical_transitions(o, F, TRUE)
    ELSE IF transition_type = "spin_gs"
    THEN Then(call_spin_transitions(o, F, {"compute_strengths"}), LAMBDA t :
              Ret(t.self, t.value[1]))
    ELSE IF transition_type = "spin_es"
    THEN Then(call_spin_transitions(o, F, {"compute_strengths"}), LAMBDA t :
              Ret(t.self, t.value[2]))
    ELSE Raise(o, "Exception")
RECURSIVE plot_loop(_, _, _, _, _)
\* "for B_idx, B in enumerate(B_range)" from index k on: the transitions of
\* every field of the range, from which the grid columns are drawn
plot_loop(o, B_range, dir, transition_type, k) ==
    IF k > Len(B_range) THEN Ret(o, <<>>)
    ELSE Then(transitions_of(o, <<B_range[k], dir[1], dir[2]>>, transition_type), LAMBDA t :
         Then(plot_loop(t.self, B_range, dir, transition_type, k + 1), LAMBDA rest :
              Ret(rest.self, <<t.value>> \o rest.value)))
plot_transitions_strengths(o, B_range, dir, transition_type) ==
    plot_loop(o, B_range, dir, transition_type, 1)

\* 10**6, GHz to kHz
kHz == 1000000
\* the three values of one doublet: each level relative to the mean, and the gap
doublet(low, up, avg) ==
    <<CScale(kHz, CSub(low, avg)), CScale(kHz, CSub(up, avg)), CScale(kHz, CSub(up, low))>>
mean(low, up) == CDivInt(CAdd(low, up), 2)
\* superhyperfine_levels: one update of its own, then four calls of energies,
\* each handed the field again; [0], [1], [-2], [-1] of the four results
superhyperfine_levels(o, state, F) ==
    Then(update_if_given(o, F), LAMBDA u :
    Then(energies(u.self, state, F), LAMBDA e1 :
    Then(energies(e1.self, state, F), LAMBDA e2 :
    Then(energies(e2.self, state, F), LAMBDA e3 :
    Then(energies(e3.self, state, F), LAMBDA e4 :
        Ret(e4.self,
            doublet(e1.value[1], e2.value[2], mean(e1.value[1], e2.value[2])) \o
            doublet(e3.value[Len(e3.value) - 1], e4.value[Len(e4.value)],
                    mean(e3.value[Len(e3.value) - 1], e4.value[Len(e4.value)]))))))))

(***************************************************************************)
(* Inputs.  All spins are 1/2 or 0 (twoS, twoI, twoH are twice the spin).  *)
(***************************************************************************)
G_iso == <<<<2, 0, 0>>, <<0, 2, 0>>, <<0, 0, 2>>>>
G_aniso == <<<<1, 0, 0>>, <<0, 2, 0>>, <<0, 1, 3>>>>
A_zero == <<<<0, 0, 0>>, <<0, 0, 0>>, <<0, 0, 0>>>>
A_sym == <<<<1, 1, 0>>, <<1, 1, 0>>, <<0, 0, 2>>>>
A_asym == <<<<0, 1, 0>>, <<0, 0, 0>>, <<0, 0, 1>>>>
\* <<g_gs, g_es, A_gs, A_es>>
Tensors ==
    {<<G_iso, G_iso, A_zero, A_zero>>,
     <<G_iso, G_aniso, A_sym, A_sym>>,
     <<G_aniso, G_iso, A_asym, A_asym>>}
\* neighbour inputs (disp_vector, spinH, g_n_host, element), spinH doubled
N_z == <<<<0, 0, 1>>, 1, 1, "Y">>
N_x == <<<<1, 0, 0>>, 1, 2, "V">>
N_0 == <<<<0, 1, 0>>, 0, 1, "O">>
NeighbourLists == {<<>>, <<N_z>>, <<N_0, N_x>>}
\* the arguments of SpinSystem(...)
Configs ==
    {[twoS |-> 1, twoI |-> tI, g_gs |-> t[1], g_es |-> t[2], A_gs |-> t[3], A_es |-> t[4],
      g_n_rei |-> 1, neighbours_list |-> nl] :
        tI \in 0..1, t \in Tensors, nl \in NeighbourLists}
\* what eig returns for a matrix that is not diagonal: the value of the
\* odd and of the even entries of the eigenvalue array
LapackOutcomes == {<<0, 2 * Q>>, <<2 * Q, 0>>}
\* fields <<B, B_theta, B_phi>>: zero field, and each magnitude along z, x and y
Directions == {<<0, 0>>, <<1, 0>>, <<1, 1>>}
Fields == {<<0, 0, 0>>} \cup {<<b, d[1], d[2]>> : b \in 1..MaxB, d \in Directions}
\* the field arguments of a query: none, B and B_theta without B_phi, or the
\* largest field along x
QueryFields == {None, <<MaxB, 1>>, <<MaxB, 1, 0>>}
StateNames == {"gs", "es", "xx"}
\* the non-negative ratios RS_x: zero and every float in [2^-MaxExp, 2^MaxExp)
MaxExp == 3
Ratios ==
    {<<0, 0>>} \cup
    {<<m, e>> : m \in Pow2(MantissaBits - 1)..(Pow2(MantissaBits) - 1),
               e \in (1 - MantissaBits - MaxExp)..(MaxExp - MantissaBits)}
\* the spins handed to generate_spin_matrices, as twice their value
MaxTwoS == 4
Spins == 0..MaxTwoS
TransitionTypes == {"optical", "spin_gs", "spin_es", "zz"}
B_ranges == {<<MaxB>>, <<0, MaxB>>}

(***************************************************************************)
(* SpinSystem.__init__                                                     *)
(***************************************************************************)
\* the object before "self.reset_ham()": the cached terms are set, the
\* working Hamiltonians and the spectra are not yet
Initialized(a, lib) ==
    LET c == SpinFields(a)
    IN [cfg |-> c, lapack |-> lib,
        HHF_gs |-> initialize_HHF_gs(c), HHF_es |-> initialize_HHF_es(c),
        H_SHF_gs |-> initialize_SHF(c, c.g_gs), H_SHF_es |-> initialize_SHF(c, c.g_es),
        H_gs |-> None, H_es |-> None,
        eigval_gs |-> None, eigval_es |-> None, E_gs |-> None, E_es |-> None,
        eigvec_gs |-> None, eigvec_es |-> None]
\* the constructor: reset_ham, then calc_energies
SpinSystem(a, lib) ==
    Then(reset_ham(Initialized(a, lib)), LAMBDA r : calc_energies(r.self))

(***************************************************************************)
(* State: the attributes of one SpinSystem object, the eigenvalue arrays   *)
(* eig returned at the last calc_energies (eigval_gs, eigval_es, locals of *)
(* the method), the library's behaviour (lapack), and the last call made   *)
(* on the object with its outcome (last).                                  *)
(***************************************************************************)
VARIABLES cfg, lapack, HHF_gs, HHF_es, H_SHF_gs, H_SHF_es, H_gs, H_es,
          eigval_gs, eigval_es, E_gs, E_es, eigvec_gs, eigvec_es, last

vars == <<cfg, lapack, HHF_gs, HHF_es, H_SHF_gs, H_SHF_es, H_gs, H_es,
          eigval_gs, eigval_es, E_gs, E_es, eigvec_gs, eigvec_es, last>>

Self ==
    [cfg |-> cfg, lapack |-> lapack,
     HHF_gs |-> HHF_gs, HHF_es |-> HHF_es, H_SHF_gs |-> H_SHF_gs, H_SHF_es |-> H_SHF_es,
     H_gs |-> H_gs, H_es |-> H_es,
     eigval_gs |-> eigval_gs, eigval_es |-> eigval_es, E_gs |-> E_gs, E_es |-> E_es,
     eigvec_gs |-> eigvec_gs, eigvec_es |-> eigvec_es]

Becomes(o) ==
    /\ cfg' = o.cfg /\ lapack' = o.lapack
    /\ HHF_gs' = o.HHF_gs /\ HHF_es' = o.HHF_es
    /\ H_SHF_gs' = o.H_SHF_gs /\ H_SHF_es' = o.H_SHF_es
    /\ H_gs' = o.H_gs /\ H_es' = o.H_es
    /\ eigval_gs' = o.eigval_gs /\ eigval_es' = o.eigval_es
    /\ E_gs' = o.E_gs /\ E_es' = o.E_es
    /\ eigvec_gs' = o.eigvec_gs /\ eigvec_es' = o.eigvec_es

\* the record of a call: the method, its manifold name and field arguments
\* (None where it has none), what it raised and returned, and whether the
\* call made just before it was reset_ham
Call(op, state, F, r) ==
    [op |-> op, state |-> state, F |-> F, raised |-> r.raised, value |-> r.value,
     after_reset |-> last.op = "reset_ham"]

\* the object a constructor call returns; a constructor that raises (reset_ham
\* on cached terms that do not broadcast) leaves no object to call
Init ==
    \E a \in Configs : \E lib \in LapackOutcomes :
        \E r \in {SpinSystem(a, lib)} :
            /\ r.raised = Nil
            /\ cfg = r.self.cfg /\ lapack = lib
            /\ HHF_gs = r.self.HHF_gs /\ HHF_es = r.self.HHF_es
            /\ H_SHF_gs = r.self.H_SHF_gs /\ H_SHF_es = r.self.H_SHF_es
            /\ H_gs = r.self.H_gs /\ H_es = r.self.H_es
            /\ eigval_gs = r.self.eigval_gs /\ eigval_es = r.self.eigval_es
            /\ E_gs = r.self.E_gs /\ E_es = r.self.E_es
            /\ eigvec_gs = r.self.eigvec_gs /\ eigvec_es = r.self.eigvec_es
            /\ last = [op |-> "__init__", state |-> Nil, F |-> None, raised |-> Nil,
                       value |-> None, after_reset |-> FALSE]

ResetHam ==
    \E r \in {reset_ham(Self)} :
        Becomes(r.self) /\ last' = Call("reset_ham", Nil, None, r)
UpdateZeemanHam ==
    \E F \in Fields : \E r \in {update_zeeman_ham(Self, F)} :
        Becomes(r.self) /\ last' = Call("update_zeeman_ham", Nil, F, r)
UpdateB ==
    \E F \in Fields : \E r \in {update_B(Self, F)} :
        Becomes(r.self) /\ last' = Call("update_B", Nil, F, r)
CalcEnergies ==
    \E r \in {calc_energies(Self)} :
        Becomes(r.self) /\ last' = Call("calc_energies", Nil, None, r)
Energies ==
    \E state \in StateNames : \E F \in QueryFields : \E r \in {energies(Self, state, F)} :
        Becomes(r.self) /\ last' = Call("energies", state, F, r)
SpinTransitions ==
    \E F \in QueryFields : \E r \in {spin_transitions(Self, F)} :
        Becomes(r.self) /\ last' = Call("spin_transitions", Nil, F, r)
OpticalTransitions ==
    \E F \in QueryFields : \E r \in {optical_transitions(Self, F, FALSE)} :
        Becomes(r.self) /\ last' = Call("optical_transitions", Nil, F, r)
SuperhyperfineLevels ==
    \E state \in StateNames : \E F \in QueryFields :
        \E r \in {superhyperfine_levels(Self, state, F)} :
            Becomes(r.self) /\ last' = Call("superhyperfine_levels", state, F, r)
BranchingContrast ==
    \E F \in QueryFields : \E r \in {branching_contrast(Self, F, None)} :
        Becomes(r.self) /\ last' = Call("branching_contrast", Nil, F, r)
PlotTransitionsStrengths ==
    \E transition_type \in TransitionTypes : \E B_range \in B_ranges :
        \E r \in {plot_transitions_strengths(Self, B_range, <<1, 0>>, transition_type)} :
            Becomes(r.self) /\ last' = Call("plot_transitions_strengths", transition_type, B_range, r)

Next ==
    \/ ResetHam
    \/ UpdateZeemanHam
    \/ UpdateB
    \/ CalcEnergies
    \/ Energies
    \/ SpinTransitions
    \/ OpticalTransitions
    \/ SuperhyperfineLevels
    \/ BranchingContrast
    \/ PlotTransitionsStrengths

Spec == Init /\ [][Next]_vars

(***************************************************************************)
(* The object as its users drive it: update_B and the four queries of the  *)
(* spectrum only.                                                          *)
(***************************************************************************)
NextQueries ==
    \/ UpdateB
    \/ Energies
    \/ SpinTransitions
    \/ OpticalTransitions
    \/ SuperhyperfineLevels
SpecQueries == Init /\ [][NextQueries]_vars

(***************************************************************************)
(* The functions that need no object: an argument is drawn, then the       *)
(* function is applied to it.                                              *)
(***************************************************************************)
NoObject ==
    /\ cfg = None /\ lapack = None
    /\ HHF_gs = None /\ HHF_es = None /\ H_SHF_gs = None /\ H_SHF_es = None
    /\ H_gs = None /\ H_es = None
    /\ eigval_gs = None /\ eigval_es = None /\ E_gs = None /\ E_es = None
    /\ eigvec_gs = None /\ eigvec_es = None
Argument(op, x) ==
    [op |-> op, state |-> "argument", F |-> x, raised |-> Nil, value |-> None,
     after_reset |-> FALSE]
Result(op, x, v) ==
    [op |-> op, state |-> "result", F |-> x, raised |-> Nil, value |-> v,
     after_reset |-> FALSE]
InitFunctions ==
    /\ NoObject
    /\ \/ \E RS_x \in Ratios : last = Argument("rho_S_x", RS_x)
       \/ \E twoS \in Spins : last = Argument("generate_spin_matrices", twoS)
RhoSx ==
    /\ last.op = "rho_S_x" /\ last.state = "argument"
    /\ last' = Result("rho_S_x", last.F, rho_S_x(last.F))
    /\ UNCHANGED <<cfg, lapack, HHF_gs, HHF_es, H_SHF_gs, H_SHF_es, H_gs, H_es,
                   eigval_gs, eigval_es, E_gs, E_es, eigvec_gs, eigvec_es>>
GenerateSpinMatrices ==
    /\ last.op = "generate_spin_matrices" /\ last.state = "argument"
    /\ last' = Result("generate_spin_matrices", last.F, generate_spin_matrices_any(last.F))
    /\ UNCHANGED <<cfg, lapack, HHF_gs, HHF_es, H_SHF_gs, H_SHF_es, H_gs, H_es,
                   eigval_gs, eigval_es, E_gs, E_es, eigvec_gs, eigvec_es>>
NextFunctions ==
    \/ RhoSx
    \/ GenerateSpinMatrices
SpecFunctions == InitFunctions /\ [][NextFunctions]_vars

(***************************************************************************)
(* Properties.                                                             *)
(***************************************************************************)
\* the calls that hand a field to update_zeeman_ham
FieldOps ==
    {"update_zeeman_ham", "update_B", "energies", "spin_transitions",
     "optical_transitions", "superhyperfine_levels"}
\* H is the matrix sum of base and Z
IsSum(H, base, Z) == Len(base) = Len(Z) /\ H = MAdd(base, Z)
\* the Zeeman sums <<ground, excited>> of the object's configuration at field F
ZeemanOf(F) == zeeman_sums(cfg, F, HZ_n_rei(cfg, F), HZ_n_host(cfg, F))

\* C1: after any call that carried a field F, whatever calls came before it,
\* each working Hamiltonian is the cached baseline HHF + H_SHF of its manifold
\* plus the Zeeman sum of F (electronic term minus the ion-nuclear term minus
\* the neighbours' nuclear terms): nothing of an earlier field remains.
C1_RebuiltFromBaseline ==
    (last.op \in FieldOps /\ Given(last.F)) =>
        /\ IsSum(H_gs, MAdd(HHF_gs, H_SHF_gs), ZeemanOf(last.F)[1])
        /\ IsSum(H_es, MAdd(HHF_es, H_SHF_es), ZeemanOf(last.F)[2])

\* C2: reset_ham() followed by update_zeeman_ham(0, 0, 0) leaves both working
\* Hamiltonians equal to the cached field-independent term HHF + H_SHF of
\* their manifold, whatever field was set before.
C2_ZeroFieldIsBaseline ==
    (last.op = "update_zeeman_ham" /\ last.F = <<0, 0, 0>> /\ last.after_reset) =>
        /\ H_gs = MAdd(HHF_gs, H_SHF_gs)
        /\ H_es = MAdd(HHF_es, H_SHF_es)
\* a zero-field update right after a reset_ham, on an object whose stored
\* spectrum is still that of an earlier, non-zero field
C2_Witness ==
    /\ last.op = "update_zeeman_ham" /\ last.F = <<0, 0, 0>> /\ last.after_reset
    /\ last.raised = Nil
    /\ E_gs # sorted(eig(H_gs, lapack))

RECURSIVE ProductMultH(_, _)
ProductMultH(neighs, k) == IF k = 0 THEN 1 ELSE ProductMultH(neighs, k - 1) * neighs[k].multH
\* D: the product of the multiplicities of all subsystems
D(c) == c.multS * c.multI * ProductMultH(c.neighbours, Len(c.neighbours))
IsSquare(M, n) == Len(M) = n /\ \A i \in 1..n : Len(M[i]) = n

\* C3: in every state of a constructed system both Hamiltonians are D x D,
\* D the product of all multiplicities, and the two manifolds have the same
\* number of energy levels.
C3_Dimension ==
    /\ IsSquare(H_gs, D(cfg))
    /\ IsSquare(H_es, D(cfg))
    /\ Len(E_gs) = Len(E_es)

RECURSIVE KronAll(_, _)
\* the Kronecker product of the first k operators of a list, left to right
KronAll(ops, k) == IF k = 1 THEN ops[1] ELSE Kron(KronAll(ops, k - 1), ops[k])
\* an operator term in the global order [electron, ion nucleus, neighbour 1,
\* ..., neighbour n]: e on the electron, n on the ion nucleus, hop on
\* neighbour idx and the identity on every other neighbour (idx = 0: on all)
Embedded(c, e, n, idx, hop) ==
    LET ops == <<e, n>> \o [k \in 1..Len(c.neighbours) |->
                              IF k = idx THEN hop ELSE Identity(c.neighbours[k].multH)]
    IN KronAll(ops, Len(ops))
\* the hyperfine terms in the global order: the ground term acts on the
\* electron alone, the excited term couples electron and ion nucleus
Ordered_HHF_gs(c) == Embedded(c, SAS(c, c.A_gs), Identity(c.multI), 0, Scalar0)
Ordered_HHF_es(c) ==
    SumMats([i \in 1..3 |-> Embedded(c, ADotS(c, c.A_es)[i], c.I[i], 0, Scalar0)], 3)
\* the superhyperfine term in the global order
Ordered_first_term(c, g, idx) ==
    LET neigh == c.neighbours[idx]
    IN SumMats([i \in 1..3 |->
           MDivInt(Embedded(c, mu_REI(c, g)[i], Identity(c.multI), idx, mu_host(neigh)[i]),
                   neigh.R * neigh.R * neigh.R)], 3)
Ordered_second_term(c, g, idx) ==
    LET neigh == c.neighbours[idx]
    IN MDivInt(MScale(3, Embedded(c, dot_REI(c, g, neigh), Identity(c.multI),
                                  idx, dot_host(neigh))),
               neigh.R * neigh.R * neigh.R * neigh.R * neigh.R)
Ordered_SHF(c, g) ==
    LET n == Len(c.neighbours)
    IN MDivInt(MScale(mu0_4pi,
                      MSub(SumMats([idx \in 1..n |-> Ordered_first_term(c, g, idx)], n),
                           SumMats([idx \in 1..n |-> Ordered_second_term(c, g, idx)], n))),
               h_GHz)
\* the Zeeman terms of field F in the global order
ZeemanOrdered(c, F) ==
    /\ HZ_el(c, c.g_gs, F) = Embedded(c, HZ_el_S(c, c.g_gs, F), Identity(c.multI), 0, Scalar0)
    /\ HZ_el(c, c.g_es, F) = Embedded(c, HZ_el_S(c, c.g_es, F), Identity(c.multI), 0, Scalar0)
    /\ HZ_n_rei(c, F) = Embedded(c, Identity(c.multS), HZ_n_rei_I(c, F), 0, Scalar0)
    /\ \A idx \in 1..Len(c.neighbours) :
          HZ_n_host_accum(c, F, idx) =
              Embedded(c, Identity(c.multS), Identity(c.multI), idx,
                       HZ_n_host_term(c.neighbours[idx], F))
SuperhyperfineOrdered ==
    /\ H_SHF_gs = Ordered_SHF(cfg, cfg.g_gs)
    /\ H_SHF_es = Ordered_SHF(cfg, cfg.g_es)
HyperfineOrdered ==
    /\ HHF_gs = Ordered_HHF_gs(cfg)
    /\ HHF_es = Ordered_HHF_es(cfg)

\* C4: every term summed into a Hamiltonian (hyperfine, superhyperfine, and
\* the three Zeeman terms of every field) is the Kronecker product in the
\* global order [electron, ion nucleus, neighbour 1, ..., neighbour n], with
\* the identity of its dimension at every subsystem the term does not act on.
C4_GlobalOrder ==
    /\ HyperfineOrdered
    /\ SuperhyperfineOrdered
    /\ \A F \in Fields : ZeemanOrdered(cfg, F)

CConj(a) == <<a[1], 0 - a[2]>>
\* conjugate transpose
ConjT(M) == [i \in 1..Len(M) |-> [j \in 1..Len(M) |-> CConj(M[j][i])]]
IsHermitian(M) == M = ConjT(M)

\* C5: the ground and the excited working Hamiltonian are Hermitian in every
\* state: at construction, after reset_ham and after every update.
C5_Hermitian == IsHermitian(H_gs) /\ IsHermitian(H_es)

IsAscending(E) == \A k \in 1..(Len(E) - 1) : ~CLess(E[k + 1], E[k])
IsReal(E) == \A k \in 1..Len(E) : E[k][2] = 0

\* C6: the stored energy sequence of each manifold has as many entries as its
\* Hamiltonian has rows, is ascending, and consists of real numbers.
C6_SortedRealEnergies ==
    /\ Len(E_gs) = Len(H_gs) /\ IsAscending(E_gs) /\ IsReal(E_gs)
    /\ Len(E_es) = Len(H_es) /\ IsAscending(E_es) /\ IsReal(E_es)

\* column k of the stored eigenvectors is the eigenvector eig returned with
\* the eigenvalue that stands at position k of the sorted energies
Paired(E, eigval, eigvec) ==
    /\ Len(eigvec) = Len(E)
    /\ {eigvec[k] : k \in 1..Len(eigvec)} = 1..Len(eigval)
    /\ \A k \in 1..Len(E) : eigval[eigvec[k]] = E[k]

\* C7: after calc_energies, in both manifolds, the k-th stored eigenvector
\* column is the one the decomposition returned for the k-th sorted energy.
C7_EigenvectorsFollowEnergies ==
    /\ Paired(E_gs, eigval_gs, eigvec_gs)
    /\ Paired(E_es, eigval_es, eigvec_es)
\* calc_energies has just run on a ground Hamiltonian whose eigenvalues eig
\* did not return in ascending order
C7_Witness ==
    /\ last.op \in {"calc_energies", "update_B"} /\ last.raised = Nil
    /\ ~IsAscending(eigval_gs)
    /\ eigvec_gs[1] # 1

\* the index pairs i < j of n levels, counted row by row
PairRank(n, i, j) ==
    Cardinality({p \in (1..n) \X (1..n) :
                    p[1] < p[2] /\ (p[1] < i \/ (p[1] = i /\ p[2] <= j))})
PairAt(n, k) == CHOOSE p \in (1..n) \X (1..n) : p[1] < p[2] /\ PairRank(n, p[1], p[2]) = k
\* one entry (E[j] - E[i], (1,1,1)) for every index pair i < j of a manifold
SpinPairs(E) ==
    [k \in 1..((Len(E) * (Len(E) - 1)) \div 2) |->
        <<CSub(E[PairAt(Len(E), k)[2]], E[PairAt(Len(E), k)[1]]), <<1, 1, 1>>>>]

\* C8: spin_transitions returns, for each manifold on its own, n(n-1)/2
\* entries, n the number of levels of that manifold: one for every index
\* pair i < j, with the energy E[j] - E[i] and the strength (1,1,1).
C8_SpinTransitions ==
    last.op = "spin_transitions" =>
        /\ last.raised = Nil
        /\ last.value = <<SpinPairs(E_gs), SpinPairs(E_es)>>

\* one entry (E_es[j] - E_gs[i], None, (i, j)) for every ground index i and
\* excited index j, indices from 0
OpticalPairs(Eg, Ee) ==
    [k \in 1..(Len(Eg) * Len(Ee)) |->
        <<CSub(Ee[((k - 1) % Len(Ee)) + 1], Eg[((k - 1) \div Len(Ee)) + 1]), None,
          <<(k - 1) \div Len(Ee), (k - 1) % Len(Ee)>>>>]

\* C9: optical_transitions with compute_strengths=False returns |E_gs| * |E_es|
\* entries, one for every pair (ground index i, excited index j), with the
\* energy E_es[j] - E_gs[i], no strength, and the index pair (i, j).
C9_OpticalTransitions ==
    last.op = "optical_transitions" =>
        /\ last.raised = Nil
        /\ last.value = OpticalPairs(E_gs, E_es)

\* C10: energies and superhyperfine_levels raise exactly when the manifold
\* name is neither of the two supported names ("gs" and "es" in the code);
\* with a supported name energies returns that manifold's energy sequence.
C10_ErrorIffUnknownName ==
    last.op \in {"energies", "superhyperfine_levels"} =>
        /\ (last.raised # Nil) <=> (last.state \notin {"gs", "es"})
        /\ (last.op = "energies" /\ last.state = "gs") => last.value = E_gs
        /\ (last.op = "energies" /\ last.state = "es") => last.value = E_es

\* the queries that take a manifold name
QueriesByName == {"energies", "superhyperfine_levels"}

\* C11: a query that fails because its manifold name is invalid has no partial
\* effect: H_gs, H_es, E_gs, E_es, eigvec_gs and eigvec_es are the same after
\* the failed call as before it, also when the call carried field values
C11_InvalidNameNoEffect ==
    [][(/\ last'.op \in QueriesByName
        /\ last'.state \notin {"gs", "es"}
        /\ last'.raised = "Exception")
       => UNCHANGED <<H_gs, H_es, E_gs, E_es, eigvec_gs, eigvec_es>>]_vars

\* optical_transitions' entries with their strengths, for the spectra and
\* eigenvectors of o
OpticalStrengthPairs ==
    [k \in 1..(Len(E_gs) * Len(E_es)) |->
        <<CSub(E_es[((k - 1) % Len(E_es)) + 1], E_gs[((k - 1) \div Len(E_es)) + 1]),
          [e \in 1..3 |-> [operator |-> e,
                           initial |-> eigvec_gs[((k - 1) \div Len(E_es)) + 1],
                           final |-> eigvec_es[((k - 1) % Len(E_es)) + 1]]],
          <<(k - 1) \div Len(E_es), (k - 1) % Len(E_es)>>>>]
\* the transition list of a supported selector, for the current spectra
TransitionsOfType(transition_type) ==
    IF transition_type = "optical" THEN OpticalStrengthPairs
    ELSE IF transition_type = "spin_gs" THEN SpinPairs(E_gs)
    ELSE SpinPairs(E_es)
SupportedTypes == {"optical", "spin_gs", "spin_es"}

\* C12: for a non-empty field range plot_transitions_strengths fails with an
\* error exactly when the selector is outside {"optical", "spin_gs",
\* "spin_es"}; with each supported selector it obtains that kind's transition
\* list without error (here: one list per field of the range, the last of
\* them that of the spectra the call leaves behind).
C12_PlotDispatch ==
    last.op = "plot_transitions_strengths" =>
        /\ (last.raised # Nil) <=> (last.state \notin SupportedTypes)
        /\ last.state \in SupportedTypes =>
              /\ Len(last.value) = Len(last.F)
              /\ last.value[Len(last.value)] = TransitionsOfType(last.state)

\* C13: for every constructed system, with or without neighbours,
\* branching_contrast with stated_levels=None returns without failing, and
\* what it returns is built on columns 0 and 1 of eigvec_gs (gs_lower,
\* gs_upper) and column 0 of eigvec_es (es_lower): the elements
\* |<gs_upper|2Sx|es_lower>|^2 and |<gs_lower|2Sx|es_lower>|^2, their ratio
\* and contrast, and the three eigenvectors.
C13_BranchingContrastReturns ==
    last.op = "branching_contrast" =>
        /\ last.raised = Nil
        /\ last.value.gs_lower.column = eigvec_gs[1]
        /\ last.value.gs_upper.column = eigvec_gs[2]
        /\ last.value.es_lower.column = eigvec_es[1]
        /\ last.value.r_23_S_x = [operator |-> 1, bra |-> eigvec_gs[2], ket |-> eigvec_es[1]]
        /\ last.value.r_13_S_x = [operator |-> 1, bra |-> eigvec_gs[1], ket |-> eigvec_es[1]]

\* comparison of two floats
FLeq(a, b) ==
    LET e == IF a[2] < b[2] THEN a[2] ELSE b[2]
    IN a[1] * Pow2(a[2] - e) <= b[1] * Pow2(b[2] - e)
FOne == FromInt(1)
\* the float that follows 1
FOneNext == <<Pow2(MantissaBits - 1) + 1, 1 - MantissaBits>>
\* a float x as the fraction of two integers <<n, d>>
Fraction(x) == IF x[2] >= 0 THEN <<x[1] * Pow2(x[2]), 1>> ELSE <<x[1], Pow2(0 - x[2])>>
\* 4R/(1+R)^2 for R = n/d, without rounding: the fraction 4nd / (n+d)^2
ExactContrast(R) ==
    <<4 * Fraction(R)[1] * Fraction(R)[2],
      (Fraction(R)[1] + Fraction(R)[2]) * (Fraction(R)[1] + Fraction(R)[2])>>
RhoApplied == last.op = "rho_S_x" /\ last.state = "result"

EnergiesOf(state) == IF state = "gs" THEN E_gs ELSE E_es
\* the two levels of a doublet relative to their mean and their gap, in kHz
Triple(low, up) ==
    <<CScale(kHz, CSub(low, CDivInt(CAdd(low, up), 2))),
      CScale(kHz, CSub(up, CDivInt(CAdd(low, up), 2))),
      CScale(kHz, CSub(up, low))>>
\* lower + upper = 0, gap = upper - lower, and the gap is a real number >= 0
Balanced(t) ==
    /\ CAdd(t[1], t[2]) = CZero
    /\ t[3] = CSub(t[2], t[1])
    /\ t[3][2] = 0 /\ t[3][1] >= 0

\* C15: superhyperfine_levels(manifold) returns six values computed from the
\* sorted energies E of the manifold: (E[0] - mean, E[1] - mean, E[1] - E[0])
\* times 10^6 for the lowest doublet, then the same for E[D-2], E[D-1]; in
\* each triple lower + upper = 0, gap = upper - lower and gap >= 0; E being
\* the spectrum the call leaves behind, the result does not depend on how
\* often the call re-applies the field.
C15_SuperhyperfineLevels ==
    (last.op = "superhyperfine_levels" /\ last.state \in {"gs", "es"}) =>
        /\ last.raised = Nil
        /\ last.value =
              Triple(EnergiesOf(last.state)[1], EnergiesOf(last.state)[2]) \o
              Triple(EnergiesOf(last.state)[Len(EnergiesOf(last.state)) - 1],
                     EnergiesOf(last.state)[Len(EnergiesOf(last.state))])
        /\ Balanced(SubSeq(last.value, 1, 3))
        /\ Balanced(SubSeq(last.value, 4, 6))

\* sum, difference and product of two exact numbers
RECURSIVE GCD(_, _)
GCD(a, b) == IF b = 0 THEN a ELSE GCD(b, a % b)
SurdCoeff(a, f) == IF f \in DOMAIN a THEN a[f] ELSE CZero
SurdAdd(a, b) ==
    [f \in {g \in (DOMAIN a) \cup (DOMAIN b) : CAdd(SurdCoeff(a, g), SurdCoeff(b, g)) # CZero} |->
        CAdd(SurdCoeff(a, f), SurdCoeff(b, f))]
SurdSub(a, b) == SurdAdd(a, [f \in DOMAIN b |-> CNeg(b[f])])
\* c1 sqrt(f1) * c2 sqrt(f2) = g c1 c2 sqrt(f1 f2 / g^2) with g = gcd(f1, f2)
SurdMulTerm(c1, f1, c2, f2) ==
    [f \in {(f1 \div GCD(f1, f2)) * (f2 \div GCD(f1, f2))} |->
        CScale(GCD(f1, f2), <<(c1[1] * c2[1] - c1[2] * c2[2]) \div QS,
                              (c1[1] * c2[2] + c1[2] * c2[1]) \div QS>>)]
RECURSIVE SurdMulOver(_, _, _)
SurdMulOver(a, b, pairs) ==
    IF pairs = {} THEN SurdZero
    ELSE LET p == CHOOSE q \in pairs : TRUE
         IN SurdAdd(SurdMulTerm(a[p[1]], p[1], b[p[2]], p[2]),
                    SurdMulOver(a, b, pairs \ {p}))
SurdMul(a, b) == SurdMulOver(a, b, (DOMAIN a) \X (DOMAIN b))
RECURSIVE SurdDot(_, _, _, _, _)
\* sum over k' <= k of A[i][k'] * B[k'][j]
SurdDot(A, B, i, j, k) ==
    IF k = 0 THEN SurdZero ELSE SurdAdd(SurdDot(A, B, i, j, k - 1), SurdMul(A[i][k], B[k][j]))
\* the commutator A B - B A of two square matrices of exact numbers
Commutator(A, B) ==
    [i \in 1..Len(A) |-> [j \in 1..Len(A) |->
        SurdSub(SurdDot(A, B, i, j, Len(A)), SurdDot(B, A, i, j, Len(A)))]]
\* the matrix i * M
TimesI(M) ==
    [i \in 1..Len(M) |-> [j \in 1..Len(M[i]) |->
        [f \in DOMAIN M[i][j] |-> <<0 - M[i][j][f][2], M[i][j][f][1]>>]]]
SpinMatricesApplied == last.op = "generate_spin_matrices" /\ last.state = "result"

\* C16: for every spin s in {1/2, 1, 3/2, ...} generate_spin_matrices(s)
\* returns three (2s+1) x (2s+1) matrices, Sz diagonal with the entries
\* s, s-1, ..., -s in descending order, Sx and Sy non-zero only on the first
\* super- and sub-diagonal, such that [Sx,Sy] = i Sz, [Sy,Sz] = i Sx and
\* [Sz,Sx] = i Sy.
C16_SpinMatrices ==
    (SpinMatricesApplied /\ last.F >= 1) =>
        LET dim == last.F + 1
            Sx == last.value[1]
            Sy == last.value[2]
            Sz == last.value[3]
        IN /\ \A e \in 1..3 : Len(last.value[e]) = dim /\ \A r \in 1..dim : Len(last.value[e][r]) = dim
           /\ \A r \in 1..dim : \A c \in 1..dim :
                 /\ Sz[r][c] = IF r = c THEN Surd(<<(QS * (last.F - 2 * (r - 1))) \div 2, 0>>, 1)
                               ELSE SurdZero
                 /\ (c # r + 1 /\ c # r - 1) => (Sx[r][c] = SurdZero /\ Sy[r][c] = SurdZero)
           /\ Commutator(Sx, Sy) = TimesI(Sz)
           /\ Commutator(Sy, Sz) = TimesI(Sx)
           /\ Commutator(Sz, Sx) = TimesI(Sy)
\* the matrices of spin 1, whose ladder entries are sqrt(2)/2, have been generated
C16_Witness ==
    /\ SpinMatricesApplied /\ last.F = 2
    /\ DOMAIN last.value[1][1][2] = {2}

\* an electron spin 1/2 alone: no ion-nucleus spin, no neighbour, both g
\* tensors diag(2,2,2), both hyperfine tensors zero
BareElectron ==
    /\ cfg.twoS = 1 /\ cfg.twoI = 0 /\ cfg.neighbours = <<>>
    /\ cfg.g_gs = G_iso /\ cfg.g_es = G_iso
    /\ cfg.A_gs = A_zero /\ cfg.A_es = A_zero
\* the field B = 1, theta = 0, phi = 0 has just been applied
UnitFieldAlongZ == last.op = "update_B" /\ last.F = <<1, 0, 0>>
\* E = (1/2) * beta_el * 2 * B for B = 1, as a stored number
HalfSplitting == <<(Q * beta_el * 2 * 1) \div 2, 0>>

\* C17: for the bare electron spin 1/2 with g = diag(2,2,2) in the field
\* B = 1, theta = 0, phi = 0, each manifold has exactly two energies, -E and
\* +E with E = (1/2) * beta_el * 2 * B.
C17_ZeemanDoublet ==
    (BareElectron /\ UnitFieldAlongZ) =>
        /\ last.raised = Nil
        /\ E_gs = <<CNeg(HalfSplitting), HalfSplitting>>
        /\ E_es = <<CNeg(HalfSplitting), HalfSplitting>>
C17_Witness ==
    /\ BareElectron /\ UnitFieldAlongZ
    /\ Len(E_gs) = 2 /\ Len(E_es) = 2 /\ E_gs[2] = HalfSplitting

\* C18: the cached terms HHF_gs, HHF_es, H_SHF_gs and H_SHF_es are written
\* only during construction: no call of reset_ham, update_zeeman_ham, update_B
\* or of a query changes them, and the in-place addition of the Zeeman term
\* to the working Hamiltonians does not write through to them.
C18_CachedTermsFrozen ==
    [][UNCHANGED <<HHF_gs, HHF_es, H_SHF_gs, H_SHF_es>>]_vars
\* a field has been added in place to the working Hamiltonians, which differ
\* from the baseline, and the cached terms are those the constructor built
C18_Witness ==
    /\ last.op \in {"update_zeeman_ham", "update_B"} /\ last.raised = Nil
    /\ H_gs # MAdd(HHF_gs, H_SHF_gs) /\ H_es # MAdd(HHF_es, H_SHF_es)
    /\ HHF_gs = initialize_HHF_gs(cfg) /\ HHF_es = initialize_HHF_es(cfg)
    /\ H_SHF_gs = initialize_SHF(cfg, cfg.g_gs) /\ H_SHF_es = initialize_SHF(cfg, cfg.g_es)

Queries == {"energies", "spin_transitions", "optical_transitions", "superhyperfine_levels"}
\* the stored spectrum of a manifold is the diagonalization of its working
\* Hamiltonian: sorted eigenvalues, eigenvector columns in the same order
Diagonalizes(E, eigvec, H) ==
    E = sorted(eig(H, lapack)) /\ eigvec = argsort(eig(H, lapack))
SpectraCurrent ==
    Diagonalizes(E_gs, eigvec_gs, H_gs) /\ Diagonalizes(E_es, eigvec_es, H_es)

\* C19: after construction and after any sequence of update_B calls and
\* queries the stored spectra are the diagonalization of the current working
\* Hamiltonians; a query that supplies all three of B, B_theta, B_phi leaves
\* the Hamiltonians rebuilt for that field (baseline plus its Zeeman sum); a
\* query with any of the three missing performs no update: it leaves the
\* Hamiltonians and the stored spectra unchanged.
C19_SpectraFollowHamiltonians ==
    /\ SpectraCurrent
    /\ [][/\ SpectraCurrent'
          /\ (last'.op \in Queries /\ Given(last'.F)) =>
                /\ IsSum(H_gs', MAdd(HHF_gs', H_SHF_gs'), ZeemanOf(last'.F)[1])
                /\ IsSum(H_es', MAdd(HHF_es', H_SHF_es'), ZeemanOf(last'.F)[2])
          /\ (last'.op \in Queries /\ ~Given(last'.F)) =>
                UNCHANGED <<H_gs, H_es, E_gs, E_es, eigvec_gs, eigvec_es>>]_vars

=============================================================================
